---- MODULE Spec2Model ----
(***************************************************************************)
(* Model of inline_notes.py: the endnote inlining of TEI documents.        *)
(*                                                                         *)
(* A document is an lxml element tree.  It is modelled as a heap of nodes: *)
(* a sequence of records, a node's identity being its index.  A node has a *)
(* tag, its attributes, its leading text (.text), its trailing text        *)
(* (.tail), the list of its children and its parent (0 is None).  A node   *)
(* that was removed from the tree stays in the heap, detached, as it stays *)
(* alive in Python while something refers to it.  Absent text (None) and   *)
(* the empty string are both "", Python treats them alike in every test of *)
(* the program.  A target and an xml:id are sequences of tokens, so that   *)
(* starts-with(@target, "#") and target[1:] are computed, not assumed.     *)
(***************************************************************************)
EXTENDS Integers, Sequences, FiniteSets, TLC

\* Bounds of the model.
MaxRefs == 2      \* children of the body paragraph
MaxFiles == 2     \* files of a batch

VARIABLES
    files,          \* the input folder: the content of each .xml file
    out,            \* the output folder: per file "absent", "partial" or "complete"
    pc,             \* position of main / process_file
    fi,             \* index of the file the loop of main is at
    success_count,  \* main: success_count
    error_count,    \* main: error_count
    exit_status,    \* the exit status of the process, -1 while it runs
    passed,         \* per file, how many times it was passed to process_file
    result,         \* the value process_file returns
    heap,           \* the element tree of the document being processed
    orig,           \* the element tree as parsed
    notes,          \* process_file: notes (the NoteTable)
    refs,           \* inline_references: refs
    ri,             \* inline_references: position of the loop in refs
    count,          \* inline_references: count
    inlined_count,  \* process_file: inlined_count
    divs,           \* remove_notes_div: notes_divs
    di              \* remove_notes_div: position of the loop in notes_divs

vars == <<files, out, pc, fi, success_count, error_count, exit_status, passed,
          result, heap, orig, notes, refs, ri, count, inlined_count, divs, di>>

---------------------------------------------------------------------------
\* Text and attribute values.

HASH == "#"
Root == 1

\* str.strip() on the texts of the model: whitespace-only text strips to "".
Strip(s) == IF s \in {"", " "} THEN "" ELSE s

NoAttrs == [target |-> <<>>, id |-> <<>>, type |-> "", place |-> ""]

\* starts-with(@target, "#")
StartsWithHash(t) == Len(t) > 0 /\ t[1] = HASH

---------------------------------------------------------------------------
\* The element tree (lxml).

Node(tag, attrs, text, tail, kids, parent) ==
    [tag |-> tag, attrs |-> attrs, text |-> text, tail |-> tail,
     kids |-> kids, parent |-> parent]

\* etree.parse of one element given as a nested value: the element and its
\* descendants enter the heap in document order.
RECURSIVE AddTree(_, _, _), AddKids(_, _, _, _)
AddTree(h, e, par) ==
    LET me == Len(h) + 1
        h1 == Append(h, Node(e.tag, e.attrs, e.text, e.tail, <<>>, par))
    IN  AddKids(h1, e.kids, me, 1)
AddKids(h, ks, me, i) ==
    IF i > Len(ks) THEN h
    ELSE LET kid == Len(h) + 1
             h1 == AddTree(h, ks[i], me)
         IN  AddKids([h1 EXCEPT ![me].kids = Append(@, kid)], ks, me, i + 1)

\* copy.deepcopy(element): a new detached element, with copies of the
\* descendants; lxml copies the tail of the element too.
RECURSIVE CopyTree(_, _, _), CopyKids(_, _, _, _)
CopyTree(h, src, par) ==
    LET me == Len(h) + 1
        h1 == Append(h, [h[src] EXCEPT !.kids = <<>>, !.parent = par])
    IN  CopyKids(h1, h[src].kids, me, 1)
CopyKids(h, ks, me, i) ==
    IF i > Len(ks) THEN h
    ELSE LET kid == Len(h) + 1
             h1 == CopyTree(h, ks[i], me)
         IN  CopyKids([h1 EXCEPT ![me].kids = Append(@, kid)], ks, me, i + 1)

\* A copy that leaves the tail of the copied element behind.
deepcopy_without_tail(h, src) ==
    [CopyTree(h, src, 0) EXCEPT ![Len(h) + 1].tail = ""]

\* The deepcopy of create_inline_note.
deepcopy(h, src) == CopyTree(h, src, 0)

Without(s, x) ==
    LET Keep(y) == y # x IN SelectSeq(s, Keep)

IndexOf(s, x) == IF \E i \in 1..Len(s) : s[i] = x
                 THEN CHOOSE i \in 1..Len(s) : s[i] = x
                 ELSE 0

\* parent.remove(child): the child leaves the list of its parent and takes its
\* tail with it.
Remove(h, parent, child) ==
    [h EXCEPT ![parent].kids = Without(@, child), ![child].parent = 0]

\* parent.append(child): the child leaves its old parent, if any, and becomes
\* the last child.
AppendChild(h, parent, child) ==
    LET h1 == IF h[child].parent # 0 THEN Remove(h, h[child].parent, child) ELSE h
    IN  [h1 EXCEPT ![parent].kids = Append(@, child), ![child].parent = parent]

\* A replacement that removes old and appends new as the last child.
Replace_at_end(h, parent, old, new) ==
    AppendChild(Remove(h, parent, old), parent, new)

\* parent.replace(old, new): new takes the place of old in the list of the
\* parent; each element keeps its own tail.
Replace(h, parent, old, new) ==
    [h EXCEPT ![parent].kids = [i \in 1..Len(@) |-> IF @[i] = old THEN new ELSE @[i]],
              ![new].parent = parent,
              ![old].parent = 0]

\* The element n and its descendants, in document order.
RECURSIVE Preorder(_, _), PreorderKids(_, _, _)
Preorder(h, n) == <<n>> \o PreorderKids(h, h[n].kids, 1)
PreorderKids(h, ks, i) ==
    IF i > Len(ks) THEN <<>>
    ELSE Preorder(h, ks[i]) \o PreorderKids(h, ks, i + 1)

Range(s) == {s[i] : i \in 1..Len(s)}

\* The proper ancestors of n.
RECURSIVE Ancestors(_, _)
Ancestors(h, n) ==
    IF h[n].parent = 0 THEN {} ELSE {h[n].parent} \cup Ancestors(h, h[n].parent)

\* The mixed content of n as a value: its leading text and, for each child in
\* order, the child's tag, attributes, content and trailing text.
RECURSIVE Content(_, _), ContentKids(_, _, _)
Content(h, n) == [text |-> h[n].text, kids |-> ContentKids(h, h[n].kids, 1)]
ContentKids(h, ks, i) ==
    IF i > Len(ks) THEN <<>>
    ELSE <<[tag |-> h[ks[i]].tag, attrs |-> h[ks[i]].attrs,
            content |-> Content(h, ks[i]), tail |-> h[ks[i]].tail]>>
         \o ContentKids(h, ks, i + 1)

---------------------------------------------------------------------------
\* The functions of inline_notes.py on the tree.

\* '//tei:back/tei:div[@type="notes"]'
IsNotesDiv(h, n) ==
    /\ h[n].tag = "div"
    /\ h[n].attrs.type = "notes"
    /\ h[n].parent # 0
    /\ h[h[n].parent].tag = "back"

back_notes_divs(h) ==
    LET Test(n) == IsNotesDiv(h, n) IN SelectSeq(Preorder(h, Root), Test)

\* './/tei:note[@xml:id]' under div, kept when the id is not empty.
note_elements(h, div) ==
    LET Test(n) == h[n].tag = "note" /\ h[n].attrs.id # <<>>
    IN  SelectSeq(Tail(Preorder(h, div)), Test)

RECURSIVE Concat(_, _, _)
Concat(h, ds, i) ==
    IF i > Len(ds) THEN <<>> ELSE note_elements(h, ds[i]) \o Concat(h, ds, i + 1)

\* get_notes_from_back: the dict from note id to note element; a later note
\* of the same id overwrites an earlier one.
get_notes_from_back(h) ==
    LET found == Concat(h, back_notes_divs(h), 1)
        ids == {h[found[i]].attrs.id : i \in 1..Len(found)}
        Last(k) == CHOOSE i \in 1..Len(found) :
                       /\ h[found[i]].attrs.id = k
                       /\ \A j \in (i + 1)..Len(found) : h[found[j]].attrs.id # k
    IN  [k \in ids |-> found[Last(k)]]

\* The loop of create_inline_note without deepcopy: each child of the note is
\* appended itself, which moves it out of the note.
RECURSIVE CopyChildren_moved(_, _, _, _)
CopyChildren_moved(h, ks, new, i) ==
    IF i > Len(ks) THEN h
    ELSE CopyChildren_moved(AppendChild(h, new, ks[i]), ks, new, i + 1)

\* The loop of create_inline_note: inline_note.append(deepcopy(child)) for each
\* child of the note.
RECURSIVE CopyChildren(_, _, _, _)
CopyChildren(h, ks, new, i) ==
    IF i > Len(ks) THEN h
    ELSE LET c == Len(h) + 1
         IN  CopyChildren(AppendChild(deepcopy(h, ks[i]), new, c), ks, new, i + 1)

\* create_inline_note: the heap with the new inline note, which is element
\* Len(h) + 1.
create_inline_note(h, note_element) ==
    LET new == Len(h) + 1
        h1 == Append(h, Node("note", [NoAttrs EXCEPT !.place = "inline"],
                             "", "", <<>>, 0))
        h2 == IF h[note_element].text # ""
              THEN [h1 EXCEPT ![new].text = h[note_element].text]
              ELSE h1
        src == h[note_element].kids
        h3 == CopyChildren(h2, src, new, 1)
    IN  IF Len(src) > 0 /\ h[src[Len(src)]].tail # ""
        THEN [h3 EXCEPT ![h3[new].kids[Len(h3[new].kids)]].tail = h[src[Len(src)]].tail]
        ELSE h3

\* '//tei:text//tei:ref[starts-with(@target, "#")]'
IsLocalRef(h, n) ==
    /\ h[n].tag = "ref"
    /\ StartsWithHash(h[n].attrs.target)
    /\ \E a \in Ancestors(h, n) : h[a].tag = "text"

find_refs(h) ==
    LET Test(n) == IsLocalRef(h, n) IN SelectSeq(Preorder(h, Root), Test)

\* One iteration of the loop of inline_references, on ref: the heap after it.
\* The new inline note, if one is made, is element Len(h) + 1.
inline_one(h, nt, ref) ==
    LET target == h[ref].attrs.target
        note_id == Tail(target)
        new == Len(h) + 1
        h1 == create_inline_note(h, nt[note_id])
        h2 == IF h[ref].tail # "" THEN [h1 EXCEPT ![new].tail = h[ref].tail] ELSE h1
        parent == h[ref].parent
    IN  IF target = <<>> THEN h
        ELSE IF note_id \notin DOMAIN nt THEN h
        ELSE IF parent # 0 THEN Replace(h2, parent, ref, new)
        ELSE h2

\* Whether that iteration counts the reference (count += 1).
inline_counts(h, nt, ref) ==
    /\ h[ref].attrs.target # <<>>
    /\ Tail(h[ref].attrs.target) \in DOMAIN nt
    /\ h[ref].parent # 0

\* remove_notes_div without the test of has_content: the back-matter container
\* is removed with whatever it still holds.
remove_one_unconditional(h, notes_div) ==
    LET back == h[notes_div].parent
        h1 == Remove(h, back, notes_div)
        text_element == h1[back].parent
    IN  IF text_element # 0 THEN Remove(h1, text_element, back) ELSE h1

\* One iteration of the loop of remove_notes_div, on notes_div.
remove_one(h, notes_div) ==
    LET back == h[notes_div].parent
        h1 == Remove(h, back, notes_div)
        has_content == Len(h1[back].kids) > 0 \/ Strip(h1[back].text) # ""
        text_element == h1[back].parent
    IN  IF ~has_content /\ text_element # 0
        THEN Remove(h1, text_element, back)
        ELSE h1

---------------------------------------------------------------------------
\* The input documents.

El(tag, attrs, text, kids, tail) ==
    [tag |-> tag, attrs |-> attrs, text |-> text, kids |-> kids, tail |-> tail]

Ref(target, text, kids, tail) ==
    El("ref", [NoAttrs EXCEPT !.target = target], text, kids, tail)

Note(id, text, kids) ==
    El("note", [NoAttrs EXCEPT !.id = id], text, kids, " ")

Div(type, kids) == El("div", [NoAttrs EXCEPT !.type = type], " ", kids, " ")

Back(text, kids) == El("back", NoAttrs, text, kids, "")

N1 == <<"N1">>
N2 == <<"N2">>
ToN1 == <<HASH, "N1">>
ToN2 == <<HASH, "N2">>
ToNone == <<HASH, "N9">>            \* a local pointer to no note
External == <<"http://example.com">>

\* What the body paragraph may hold: references to notes, with and without
\* trailing text, a local pointer to no note, an external reference,
\* references inside references, and markup that is no reference.
BodyKinds == {
    Ref(ToN1, "1", <<>>, "a"),
    Ref(ToN1, "1", <<>>, ""),
    Ref(ToN2, "2", <<>>, " "),
    Ref(ToNone, "9", <<>>, "b"),
    Ref(External, "x", <<>>, "c"),
    Ref(<<HASH>>, "0", <<>>, "u"),
    Ref(ToN1, "see", <<Ref(ToN2, "2", <<>>, "d")>>, "e"),
    Ref(ToN1, "see", <<Ref(External, "x", <<>>, "")>>, ""),
    Ref(External, "x", <<Ref(ToN1, "1", <<>>, "f")>>, "g"),
    El("hi", NoAttrs, "h", <<>>, "i") }

Bodies == UNION {[1..n -> BodyKinds] : n \in 0..MaxRefs}

Hi == El("hi", NoAttrs, "em", <<El("foreign", NoAttrs, "fr", <<>>, "k")>>, "l")

\* Notes divisions: plain notes with mixed content; a note that refers to a
\* later note; a note with an external reference and a note that refers to
\* an earlier note; a note without identifier only; an empty division.
NotesPlain == Div("notes", <<Note(N1, "one", <<>>),
                             Note(N2, "two", <<Hi, El("hi", NoAttrs, "", <<>>, "m")>>)>>)
NotesForward == Div("notes", <<Note(N1, "one", <<Ref(ToN2, "2", <<>>, "n")>>),
                               Note(N2, "two", <<>>)>>)
NotesBackward == Div("notes", <<Note(N1, "", <<Ref(External, "x", <<>>, "o")>>),
                                Note(N2, "two", <<Ref(ToN1, "1", <<>>, "")>>)>>)
NotesAnonymous == Div("notes", <<Note(<<>>, "anon", <<>>)>>)
NotesEmpty == Div("notes", <<>>)
NotesFirst == Div("notes", <<Note(N1, "one", <<Hi>>)>>)
NotesSecond == Div("notes", <<Note(N2, "two", <<>>)>>)
\* Two notes of the same identifier.
NotesDuplicate == Div("notes", <<Note(N1, "one", <<>>), Note(N1, "uno", <<Hi>>)>>)
\* A note that quotes a back matter with a notes division of its own.
NotesNested == Div("notes", <<Note(N1, "one", <<Back("", <<NotesEmpty, Hi>>)>>)>>)

Liminal == Div("liminal", <<El("p", NoAttrs, "q", <<Ref(External, "x", <<>>, "r")>>, "")>>)

\* What follows the body inside text.
BackMatters == {
    <<>>,
    <<Back(" ", <<NotesPlain>>)>>,
    <<Back(" ", <<NotesForward>>)>>,
    <<Back(" ", <<NotesBackward>>)>>,
    <<Back(" ", <<NotesAnonymous>>)>>,
    <<Back(" ", <<NotesEmpty>>)>>,
    <<Back(" ", <<NotesPlain, Liminal>>)>>,
    <<Back("s", <<NotesPlain>>)>>,
    <<Back(" ", <<NotesPlain>>), Back("", <<>>)>>,
    <<Back(" ", <<Liminal>>)>>,
    <<Back(" ", <<NotesForward, Ref(External, "x", <<>>, "t")>>)>>,
    <<Back(" ", <<NotesFirst, NotesSecond>>)>>,
    <<Back(" ", <<NotesFirst>>), Back(" ", <<NotesSecond, Liminal>>)>>,
    <<Back(" ", <<NotesNested>>)>>,
    <<Back(" ", <<NotesDuplicate>>)>> }

Header == El("teiHeader", NoAttrs, "", <<Ref(ToN1, "h", <<>>, "")>>, "")

Document(body, backs) ==
    El("TEI", NoAttrs, "", <<
        Header,
        El("text", NoAttrs, "",
           <<El("body", NoAttrs, "", <<El("p", NoAttrs, "p", body, "")>>, "")>> \o backs,
           "") >>, "")

WellFormed(root) == [wellformed |-> TRUE, root |-> root]
Malformed == [wellformed |-> FALSE, root |-> El("", NoAttrs, "", <<>>, "")]

\* The files a folder of one file may hold, and the files of the batches.
AllFiles == {WellFormed(Document(b, k)) : b \in Bodies, k \in BackMatters} \cup {Malformed}

BatchFiles == {
    Malformed,
    WellFormed(Document(<<Ref(ToN1, "1", <<>>, "a")>>, <<Back(" ", <<NotesPlain>>)>>)),
    WellFormed(Document(<<>>, <<>>)) }

Folders == {<<f>> : f \in AllFiles}
           \cup UNION {[1..n -> BatchFiles] : n \in 0..MaxFiles}

---------------------------------------------------------------------------
\* The program.

NoHeap == <<>>
NoTable == <<>>

Init ==
    /\ files \in Folders
    /\ out = [i \in 1..Len(files) |-> "absent"]
    /\ pc = "main"
    /\ fi = 1
    /\ success_count = 0
    /\ error_count = 0
    /\ exit_status = -1
    /\ passed = [i \in 1..Len(files) |-> 0]
    /\ result = FALSE
    /\ heap = NoHeap
    /\ orig = NoHeap
    /\ notes = NoTable
    /\ refs = <<>>
    /\ ri = 1
    /\ count = 0
    /\ inlined_count = 0
    /\ divs = <<>>
    /\ di = 1

Locals == <<heap, orig, notes, refs, ri, count, inlined_count, divs, di>>
Batch == <<files, fi, success_count, error_count, exit_status, passed>>

\* main, lines 255-259: no .xml file in the input folder.
MainNoFiles ==
    /\ pc = "main"
    /\ Len(files) = 0
    /\ exit_status' = 1
    /\ pc' = "exit"
    /\ UNCHANGED <<files, out, fi, success_count, error_count, passed, result, Locals>>

\* main, lines 261-268: the loop starts.
MainStart ==
    /\ pc = "main"
    /\ Len(files) > 0
    /\ pc' = "loop"
    /\ UNCHANGED <<Batch, out, result, Locals>>

\* main, line 270-274: the next file is passed to process_file.
MainCall ==
    /\ pc = "loop"
    /\ fi <= Len(files)
    /\ passed' = [passed EXCEPT ![fi] = @ + 1]
    /\ pc' = "parse"
    /\ UNCHANGED <<files, out, fi, success_count, error_count, exit_status, result, Locals>>

\* process_file, lines 194-196: the file is parsed; a malformed file raises.
Parse ==
    /\ pc = "parse"
    /\ IF files[fi].wellformed
       THEN /\ heap' = AddTree(NoHeap, files[fi].root, 0)
            /\ orig' = heap'
            /\ pc' = "collect"
            /\ UNCHANGED result
       ELSE /\ result' = FALSE
            /\ pc' = "return"
            /\ UNCHANGED <<heap, orig>>
    /\ UNCHANGED <<Batch, out, notes, refs, ri, count, inlined_count, divs, di>>

\* process_file, lines 199-201: the notes are collected.
Collect ==
    /\ pc = "collect"
    /\ notes' = get_notes_from_back(heap)
    /\ pc' = IF DOMAIN notes' = {} THEN "copy" ELSE "inline_references"
    /\ UNCHANGED <<Batch, out, result, heap, orig, refs, ri, count, inlined_count, divs, di>>

\* tree.write: it succeeds, or it fails before it created the file, or it fails
\* after it wrote a part of it.
WriteOutcomes == {"written", "not_opened", "interrupted"}

tree_write(o, i, outcome) ==
    CASE outcome = "written" -> [o EXCEPT ![i] = "complete"]
      [] outcome = "not_opened" -> o
      [] outcome = "interrupted" -> [o EXCEPT ![i] = "partial"]

\* process_file, lines 203-210: no note was found, the file is copied.
WriteCopy ==
    /\ pc = "copy"
    /\ \E outcome \in WriteOutcomes :
        /\ out' = tree_write(out, fi, outcome)
        /\ result' = (outcome = "written")
    /\ pc' = "return"
    /\ UNCHANGED <<Batch, Locals>>

\* inline_references, lines 98-105: the references are found.
InlineStart ==
    /\ pc = "inline_references"
    /\ count' = 0
    /\ refs' = find_refs(heap)
    /\ ri' = 1
    /\ pc' = "inline_loop"
    /\ UNCHANGED <<Batch, out, result, heap, orig, notes, inlined_count, divs, di>>

\* inline_references, lines 107-130: one iteration of the loop.
InlineStep ==
    /\ pc = "inline_loop"
    /\ ri <= Len(refs)
    /\ heap' = inline_one(heap, notes, refs[ri])
    /\ count' = IF inline_counts(heap, notes, refs[ri]) THEN count + 1 ELSE count
    /\ ri' = ri + 1
    /\ UNCHANGED <<Batch, out, pc, result, orig, notes, refs, inlined_count, divs, di>>

\* inline_references, line 132, and process_file, lines 215-216.
InlineReturn ==
    /\ pc = "inline_loop"
    /\ ri > Len(refs)
    /\ inlined_count' = count
    /\ pc' = "remove_notes_div"
    /\ UNCHANGED <<Batch, out, result, heap, orig, notes, refs, ri, count, divs, di>>

\* remove_notes_div, lines 147-153: the notes divisions are found.
RemoveStart ==
    /\ pc = "remove_notes_div"
    /\ divs' = back_notes_divs(heap)
    /\ di' = 1
    /\ pc' = IF Len(divs') = 0 THEN "write" ELSE "remove_loop"
    /\ UNCHANGED <<Batch, out, result, heap, orig, notes, refs, ri, count, inlined_count>>

\* remove_notes_div, lines 155-176: one iteration of the loop.
RemoveStep ==
    /\ pc = "remove_loop"
    /\ di <= Len(divs)
    /\ IF heap[divs[di]].parent = 0
       THEN \* back is None: back.remove raises, process_file returns False
            /\ result' = FALSE
            /\ pc' = "return"
            /\ UNCHANGED <<heap, di>>
       ELSE /\ heap' = remove_one(heap, divs[di])
            /\ di' = di + 1
            /\ UNCHANGED <<pc, result>>
    /\ UNCHANGED <<Batch, out, orig, notes, refs, ri, count, inlined_count, divs>>

\* remove_notes_div, line 178.
RemoveReturn ==
    /\ pc = "remove_loop"
    /\ di > Len(divs)
    /\ pc' = "write"
    /\ UNCHANGED <<Batch, out, result, Locals>>

\* process_file, lines 222-234: the result is written.
WriteOutput ==
    /\ pc = "write"
    /\ \E outcome \in WriteOutcomes :
        /\ out' = tree_write(out, fi, outcome)
        /\ result' = (outcome = "written")
    /\ pc' = "return"
    /\ UNCHANGED <<Batch, Locals>>

\* main without the isolation of failures: a failed document ends the run.
MainCount_abort ==
    /\ pc = "return"
    /\ IF result
       THEN /\ success_count' = success_count + 1
            /\ fi' = fi + 1
            /\ pc' = "loop"
            /\ UNCHANGED <<error_count, exit_status>>
       ELSE /\ error_count' = error_count + 1
            /\ exit_status' = 1
            /\ pc' = "exit"
            /\ UNCHANGED <<success_count, fi>>
    /\ heap' = NoHeap
    /\ orig' = NoHeap
    /\ notes' = NoTable
    /\ refs' = <<>>
    /\ ri' = 1
    /\ count' = 0
    /\ inlined_count' = 0
    /\ divs' = <<>>
    /\ di' = 1
    /\ UNCHANGED <<files, out, passed, result>>

\* main, lines 274-278: the result of process_file is counted.
MainCount ==
    /\ pc = "return"
    /\ IF result
       THEN success_count' = success_count + 1 /\ UNCHANGED error_count
       ELSE error_count' = error_count + 1 /\ UNCHANGED success_count
    /\ fi' = fi + 1
    /\ pc' = "loop"
    /\ heap' = NoHeap
    /\ orig' = NoHeap
    /\ notes' = NoTable
    /\ refs' = <<>>
    /\ ri' = 1
    /\ count' = 0
    /\ inlined_count' = 0
    /\ divs' = <<>>
    /\ di' = 1
    /\ UNCHANGED <<files, out, exit_status, passed, result>>

\* main, lines 280-285: the summary; the process ends.
MainEnd ==
    /\ pc = "loop"
    /\ fi > Len(files)
    /\ exit_status' = 0
    /\ pc' = "exit"
    /\ UNCHANGED <<files, out, fi, success_count, error_count, passed, result, Locals>>

Next ==
    \/ MainNoFiles
    \/ MainStart
    \/ MainCall
    \/ Parse
    \/ Collect
    \/ WriteCopy
    \/ InlineStart
    \/ InlineStep
    \/ InlineReturn
    \/ RemoveStart
    \/ RemoveStep
    \/ RemoveReturn
    \/ WriteOutput
    \/ MainCount
    \/ MainEnd

Spec == Init /\ [][Next]_vars

---------------------------------------------------------------------------
\* Vocabulary of the claims.

Elements(h) == 1..Len(h)

\* The elements of the document tree.
InTree(h) == Range(Preorder(h, Root))

UnderTag(h, n, tag) == \E a \in Ancestors(h, n) : h[a].tag = tag

IsInlineNote(h, n) == h[n].tag = "note" /\ h[n].attrs.place = "inline"

\* A reference whose target is a local pointer '#id' with id in the table.
PointsToNote(h, nt, n) ==
    /\ h[n].tag = "ref"
    /\ StartsWithHash(h[n].attrs.target)
    /\ Tail(h[n].attrs.target) \in DOMAIN nt

\* The references of the text (outside the header) that point to a note.
NoteRefs(h, nt) ==
    {n \in InTree(h) : PointsToNote(h, nt, n) /\ UnderTag(h, n, "text")}

\* A document is being processed and its tree is in memory.
Parsed == pc \notin {"main", "loop", "parse", "exit"} /\ heap # NoHeap

\* process_file has returned to main, for a document that was parsed.
Returned == pc = "return" /\ heap # NoHeap

---------------------------------------------------------------------------
\* C1: when inline_references returns, the count it returns is the number of
\* references of the text that point to a collected note, and that many inline
\* notes are in the document tree, wherever the references are.
C1_CountConservation ==
    pc = "remove_notes_div" =>
        /\ inlined_count = Cardinality(NoteRefs(orig, notes))
        /\ Cardinality({n \in InTree(heap) : IsInlineNote(heap, n)}) = inlined_count

---------------------------------------------------------------------------
\* C2 as stated: every reference that does not point to a collected note is
\* still in the tree after process_file, with the same parent, position,
\* attributes, content and trailing text, and there are as many of them after
\* as before.
OtherRefs(h, nt) == {n \in InTree(h) : h[n].tag = "ref" /\ ~PointsToNote(h, nt, n)}

C2_AllOtherRefsPreserved ==
    Returned =>
        /\ \A r \in OtherRefs(orig, notes) :
            /\ r \in InTree(heap)
            /\ heap[r].parent = orig[r].parent
            /\ IndexOf(heap[heap[r].parent].kids, r) = IndexOf(orig[orig[r].parent].kids, r)
            /\ heap[r].attrs = orig[r].attrs
            /\ Content(heap, r) = Content(orig, r)
            /\ heap[r].tail = orig[r].tail
        /\ Cardinality(OtherRefs(heap, notes)) = Cardinality(OtherRefs(orig, notes))

\* C2 as amended: it holds of the references that are neither inside a notes
\* division of the back matter nor inside a reference that is replaced.  The
\* position is counted among the siblings that are no notes divisions, and a
\* child that was a replaced reference is now an inline note.
InNotesDiv(h, n) == \E a \in Ancestors(h, n) : IsNotesDiv(h, a)

InReplacedRef(h, nt, n) == \E a \in Ancestors(h, n) : a \in NoteRefs(h, nt)

KeptRefs(h, nt) ==
    {r \in OtherRefs(h, nt) : ~InNotesDiv(h, r) /\ ~InReplacedRef(h, nt, r)}

Position(h, n) ==
    LET Sibling(k) == ~IsNotesDiv(h, k)
    IN  IndexOf(SelectSeq(h[h[n].parent].kids, Sibling), n)

\* C2, amended: the references that point to no collected note and are outside
\* the notes divisions and the replaced references are preserved.
C2_OtherRefsOutsideNotesPreserved ==
    Returned =>
        /\ \A r \in KeptRefs(orig, notes) :
            /\ r \in InTree(heap)
            /\ heap[r].parent = orig[r].parent
            /\ Position(heap, r) = Position(orig, r)
            /\ heap[r].attrs = orig[r].attrs
            /\ heap[r].text = orig[r].text
            /\ heap[r].tail = orig[r].tail
            /\ Len(heap[r].kids) = Len(orig[r].kids)
            /\ \A i \in 1..Len(orig[r].kids) :
                \/ heap[r].kids[i] = orig[r].kids[i]
                \/ /\ orig[r].kids[i] \in NoteRefs(orig, notes)
                   /\ IsInlineNote(heap, heap[r].kids[i])
        /\ {n \in OtherRefs(heap, notes) : n <= Len(orig) /\ ~InNotesDiv(heap, n)}
               = KeptRefs(orig, notes)

\* An external reference outside the notes division survived a pass that
\* inlined a note and removed a notes division.
C2_Witness ==
    /\ Returned
    /\ result
    /\ inlined_count > 0
    /\ \E d \in Elements(orig) : IsNotesDiv(orig, d) /\ d \notin InTree(heap)
    /\ \E r \in KeptRefs(orig, notes) :
        /\ orig[r].attrs.target = External
        /\ UnderTag(orig, r, "back")

---------------------------------------------------------------------------
\* C3: after process_file succeeded, no notes division is directly inside a
\* back-matter container of the output, whatever the notes divisions held.
NotesDivsIn(h) == {n \in InTree(h) : IsNotesDiv(h, n)}

C3_NoNotesDivisionLeft ==
    (Returned /\ result) => NotesDivsIn(heap) = {}

---------------------------------------------------------------------------
\* C4 as stated: after remove_notes_div, every back-matter container of the
\* document is in the tree if and only if it has a child element or
\* non-whitespace direct text.
HasContent(h, b) == Len(h[b].kids) > 0 \/ Strip(h[b].text) # ""

Backs(h) == {b \in InTree(h) : h[b].tag = "back"}

C4_EveryBackKeptIffContent ==
    pc = "write" =>
        \A b \in Backs(orig) : (b \in InTree(heap)) <=> HasContent(heap, b)

\* C4 as amended: it holds of the containers that held a notes division (the
\* others are not inspected), have a parent and are not inside a notes
\* division.  Removing a division changes the division, the list of children of
\* its container and, when the container is excised, the list of the
\* container's parent; nothing else.
HeldNotesDiv(h, b) == \E k \in Range(h[b].kids) : IsNotesDiv(h, k)

C4_InspectedBackKeptIffContent ==
    pc = "write" =>
        \A b \in Backs(orig) :
            (HeldNotesDiv(orig, b) /\ orig[b].parent # 0 /\ ~InNotesDiv(orig, b))
                => ((b \in InTree(heap)) <=> HasContent(heap, b))

C4_RemovalIsLocal ==
    (pc = "remove_loop" /\ di' = di + 1) =>
        LET d == divs[di]
            b == heap[d].parent
            p == heap[b].parent
        IN  /\ heap'[d] = [heap[d] EXCEPT !.parent = 0]
            /\ heap'[b].kids = Without(heap[b].kids, d)
            /\ heap'[b].text = heap[b].text
            /\ p # 0 => (heap'[b].parent # 0 <=> HasContent(heap', b))
            /\ heap'[b].parent = 0 => heap'[p].kids = Without(heap[p].kids, b)
            /\ \A n \in Elements(heap) \ {d, b, p} : heap'[n] = heap[n]
            /\ Len(heap') = Len(heap)

\* C4, amended: after remove_notes_div every inspected back-matter container
\* is in the tree if and only if it has content, and each removal is local.
C4_BackKeptIffContent ==
    [](C4_InspectedBackKeptIffContent) /\ [][C4_RemovalIsLocal]_vars

\* One container that held only a notes division is gone, and one that also
\* held a division of another type is kept with that division.
C4_Witness ==
    /\ pc = "write"
    /\ \E b \in Backs(orig) : HeldNotesDiv(orig, b) /\ b \notin InTree(heap)
    /\ \E b \in Backs(orig) :
        /\ HeldNotesDiv(orig, b)
        /\ b \in InTree(heap)
        /\ Len(heap[b].kids) = 1
        /\ heap[heap[b].kids[1]].attrs.type = "liminal"

---------------------------------------------------------------------------
\* C6: after process_file succeeded on a document with collected notes, no
\* reference of the text points to a collected note, the references inside the
\* inline copies included.
C6_NoReferenceToNoteLeft ==
    (Returned /\ result /\ DOMAIN notes # {}) => NoteRefs(heap, notes) = {}

---------------------------------------------------------------------------
\* C8: when process_file returns False, the output path holds no half-written
\* file.
C8_NoPartialOutputOnFailure ==
    (pc = "return" /\ ~result) => out[fi] # "partial"

---------------------------------------------------------------------------
\* An iteration of inline_references that replaces its reference: the
\* reference, the note it points to and the inline note it makes.
Replacing == pc = "inline_loop" /\ ri <= Len(refs) /\ count' = count + 1
TheRef == refs[ri]
TheNote == notes[Tail(heap[TheRef].attrs.target)]
TheInlineNote == Len(heap) + 1

Subtree(h, n) == Range(Preorder(h, n))

\* C5: each reference of the body that points to a note gets an inline note
\* of its own, made of new elements only, which holds the full mixed content
\* of the note; making it changes no element of the note, of an earlier copy
\* or of anything else but the reference and its parent.
C5_Step ==
    (/\ pc = "inline_loop"
     /\ ri' = ri + 1
     /\ PointsToNote(heap, notes, TheRef)
     /\ UnderTag(orig, TheRef, "body")) =>
        /\ count' = count + 1
        /\ IsInlineNote(heap', TheInlineNote)
        /\ Subtree(heap', TheInlineNote) = (Len(heap) + 1)..Len(heap')
        /\ \A m \in Subtree(heap', TheInlineNote) :
               Cardinality({q \in Elements(heap') : m \in Range(heap'[q].kids)}) = 1
        /\ Content(heap', TheInlineNote) = Content(orig, TheNote)
        /\ \A m \in Elements(heap) \ {TheRef, heap[TheRef].parent} : heap'[m] = heap[m]

\* C5: N references of the body to one note make N inline notes, each a
\* separate tree of new elements with the full content of the note.
C5_IndependentCopies == [][C5_Step]_vars

\* Two inline notes made from the same note with child elements are in the
\* tree, equal in content and without a common element.
C5_Witness ==
    /\ pc = "remove_notes_div"
    /\ \E a, b \in InTree(heap) :
        /\ a # b
        /\ IsInlineNote(heap, a) /\ IsInlineNote(heap, b)
        /\ Len(heap[a].kids) > 0
        /\ Content(heap, a) = Content(heap, b)
        /\ Subtree(heap, a) \cap Subtree(heap, b) = {}
        /\ \E k \in DOMAIN notes :
            /\ Content(heap, notes[k]) = Content(heap, a)
            /\ Subtree(heap, notes[k]) \cap (Subtree(heap, a) \cup Subtree(heap, b)) = {}

---------------------------------------------------------------------------
\* C7: every file of the batch is passed to process_file exactly once, in
\* turn, whatever the files before it did; failures are counted; at the end
\* success_count + error_count is the number of files and the exit status is 0.
InProcessFile == pc \notin {"main", "loop", "exit"}

C7_BatchIsolation ==
    /\ \A i \in 1..Len(files) :
        passed[i] = IF i < fi \/ (i = fi /\ InProcessFile) THEN 1 ELSE 0
    /\ (pc = "loop" \/ (pc = "exit" /\ Len(files) > 0)) =>
        /\ success_count + error_count = fi - 1
        /\ success_count = Cardinality({i \in 1..(fi - 1) : out[i] = "complete"})
    /\ (pc = "exit" /\ Len(files) > 0) =>
        /\ fi = Len(files) + 1
        /\ success_count + error_count = Len(files)
        /\ exit_status = 0

\* A batch ended in which a malformed file came before a file that was
\* processed and written.
C7_Witness ==
    /\ pc = "exit"
    /\ Len(files) >= 2
    /\ ~files[1].wellformed
    /\ out[2] = "complete"
    /\ error_count >= 1
    /\ success_count >= 1

---------------------------------------------------------------------------
\* C9: the inline note made by create_inline_note is a new note element with
\* place="inline" and no other attribute, whose mixed content is that of the
\* source note: the leading text and the children in order, each with its
\* attributes, nested markup and trailing text.
C9_Step ==
    Replacing =>
        /\ heap'[TheInlineNote].tag = "note"
        /\ heap'[TheInlineNote].attrs = [NoAttrs EXCEPT !.place = "inline"]
        /\ Content(heap', TheInlineNote) = Content(heap, TheNote)

\* C9: every inline note that is made has the mixed content of its source.
C9_InlineNoteEqualsSource == [][C9_Step]_vars

\* An inline note of leading text only and one with two child elements, the
\* first with trailing text, were made.
C9_Witness ==
    /\ pc = "remove_notes_div"
    /\ \E n \in InTree(heap) :
        IsInlineNote(heap, n) /\ heap[n].kids = <<>> /\ heap[n].text # ""
    /\ \E n \in InTree(heap) :
        /\ IsInlineNote(heap, n)
        /\ Len(heap[n].kids) = 2
        /\ heap[heap[n].kids[1]].tail # ""
        /\ heap[heap[n].kids[1]].kids # <<>>

---------------------------------------------------------------------------
\* C10: the inline note takes the index of the reference it replaces in the
\* list of the parent and carries its trailing text; the leading text of the
\* parent, its other children, their order and their trailing texts are
\* unchanged.
C10_Step ==
    Replacing =>
        LET p == heap[TheRef].parent
            i == IndexOf(heap[p].kids, TheRef)
        IN  /\ Len(heap'[p].kids) = Len(heap[p].kids)
            /\ heap'[p].kids[i] = TheInlineNote
            /\ heap'[TheInlineNote].parent = p
            /\ heap'[TheInlineNote].tail = heap[TheRef].tail
            /\ heap'[p].text = heap[p].text
            /\ \A j \in 1..Len(heap[p].kids) : j # i =>
                /\ heap'[p].kids[j] = heap[p].kids[j]
                /\ heap'[heap[p].kids[j]].tail = heap[heap[p].kids[j]].tail

\* C10: every replacement is in place and keeps the trailing text.
C10_ReplacedInPlace == [][C10_Step]_vars

\* A first child that was a reference with trailing text is now an inline
\* note with that trailing text, before a sibling that is still in its place.
C10_Witness ==
    /\ pc = "inline_loop"
    /\ count > 0
    /\ \E p \in InTree(heap) :
        /\ Len(heap[p].kids) >= 2
        /\ IsInlineNote(heap, heap[p].kids[1])
        /\ heap[heap[p].kids[1]].tail = "a"
        /\ heap[p].kids[2] = orig[p].kids[2]

---------------------------------------------------------------------------
\* C11: from the collection of the NoteTable until Cleanup, the subtree of
\* every collected note is as it was parsed: get_notes_from_back leaves the
\* tree alone and inline_references only reads and copies the notes, also when
\* a note holds a reference to a collected note.
BetweenCollectionAndCleanup ==
    pc \in {"inline_references", "inline_loop", "remove_notes_div"}

C11_NotesUnchangedUntilCleanup ==
    BetweenCollectionAndCleanup =>
        /\ pc = "inline_references" => heap = orig
        /\ \A k \in DOMAIN notes :
            /\ heap[notes[k]].attrs = orig[notes[k]].attrs
            /\ heap[notes[k]].tail = orig[notes[k]].tail
            /\ heap[notes[k]].parent = orig[notes[k]].parent
            /\ Content(heap, notes[k]) = Content(orig, notes[k])

====
